---- MODULE Spec2Model ----
(***************************************************************************)
(* A model of the process supervisor in main.go: the Manager, its map of   *)
(* AppState records guarded by one sync.RWMutex, the StartApp / StopApp    *)
(* operations, the two goroutines every launch spawns (output reader and   *)
(* exit waiter), the periodic health-check loop and the two read-only      *)
(* HTTP handlers.                                                          *)
(*                                                                         *)
(* A goroutine's critical section is one action, enabled only when the     *)
(* mutex admits it.  StartApp holds the write lock across the process      *)
(* spawn and getAppsHandler holds the read lock across the response        *)
(* write, so each of them is two actions with the lock held in between.    *)
(***************************************************************************)
EXTENDS Integers, Sequences, FiniteSets, TLC

VARIABLES
    appConfigs, \* the []AppConfig that main passes to NewManager
    apps,       \* Manager.apps : name -> AppState
    mu,         \* Manager.mu : "free", "W" (StartApp holds Lock), "R" (getAppsHandler holds RLock)
    startArg,   \* appName of the StartApp call that holds the lock
    procs,      \* one record per exec.Cmd ever started, indexed by launch id
    hcPc,       \* position of the RunHealthChecks goroutine
    hcTodo,     \* apps of appsToHealthCheck not yet visited in this tick
    hcApp,      \* the app the loop is working on
    hcResp,     \* outcome of client.Get in CheckAppHealth
    now,        \* time.Now(), counted in ticks of the health ticker
    snap,       \* local `states` of getAppsHandler while it holds the read lock
    tailIn,     \* local `output` of getAppOutputHandler
    tailOut,    \* bytes getAppOutputHandler wrote to the response
    tailPc,     \* "idle", or "done" once tailOut was written
    last,       \* the call that returned in the most recent step: operation, app name, error, launch id
    scenario    \* per app: "new", "started", "stopped", "other" (observer of the Start/Stop history)

vars == <<appConfigs, apps, mu, startArg, procs, hcPc, hcTodo, hcApp, hcResp, now,
          snap, tailIn, tailOut, tailPc, last, scenario>>

(***************************************************************************)
(* Bounds of the model.                                                    *)
(***************************************************************************)
MaxLaunch == 2      \* launches in a behaviour of the lifecycle specification
MaxHealthLaunch == 1 \* launches in a behaviour of the health-check specification
MaxTicks == 1       \* ticks of the health ticker in one behaviour
MaxBufLaunch == 2   \* launches in a behaviour of the output specification
MaxReads == 5       \* chunks read, by all readers, in a behaviour of the output specification
MaxLines == 60      \* lines of the texts given to the output tail
LineLen == 2        \* a child prints a newline every LineLen bytes
MaxConfigs == 2     \* configurations in a list given to NewManager
MaxConfigLaunch == 1 \* launches in a behaviour of the construction specification
MaxLiveLaunch == 2  \* launches in a behaviour of the exit specification
MaxTaskLaunch == 2  \* launches in a behaviour of the task specification
MaxChanLaunch == 1  \* launches in a behaviour of the channel specification
MaxDrops == 2       \* chunks read beyond the capacity of the output channel

(***************************************************************************)
(* Program constants.                                                      *)
(***************************************************************************)
ReadBufSize == 1024     \* buf := make([]byte, 1024)
BufferCap == 4096       \* if app.OutputBuffer.Len() > 4096
BufferKeep == 2048      \* Bytes()[Len()-2048:]
ChanCap == 100          \* make(chan string, 100)
TailLines == 50         \* if numLines > 50
StatusOK == 200         \* http.StatusOK
NL == 10                \* '\n'

(***************************************************************************)
(* Configuration: one app without health URL, one with.                    *)
(***************************************************************************)
Configs ==
    << [Name |-> "Echo", HealthURL |-> ""],
       [Name |-> "Web",  HealthURL |-> "http://127.0.0.1:6972/health"] >>

Unknown == "Ghost"      \* a name no configuration has

Min(a, b) == IF a < b THEN a ELSE b

(***************************************************************************)
(* NewManager: one AppState per configuration, keyed by name; a later      *)
(* configuration of the same name overwrites the earlier map entry.        *)
(***************************************************************************)
NewAppState(cfg) ==
    [ Config          |-> cfg,
      Cmd             |-> 0,            \* nil
      Running         |-> FALSE,
      HealthStatus    |-> "Unknown",
      HealthLastCheck |-> 0,            \* zero time.Time
      OutputBuffer    |-> << >>,
      OutputChan      |-> << >> ]

NewManager(configs) ==
    [ n \in { configs[i].Name : i \in DOMAIN configs } |->
        LET i == CHOOSE i \in DOMAIN configs :
                    /\ configs[i].Name = n
                    /\ \A j \in DOMAIN configs : configs[j].Name = n => j <= i
        IN  NewAppState(configs[i]) ]

Names == DOMAIN apps

(***************************************************************************)
(* The returned errors, formatted as the code formats them.                *)
(***************************************************************************)
ErrNotFound(n)       == "app " \o n \o " not found"
ErrAlreadyRunning(n) == "app " \o n \o " is already running"
ErrNotRunning(n)     == "app " \o n \o " is not running"
ErrStdoutPipe(n)     == "failed to get stdout pipe for " \o n \o ": too many open files"
ErrStderrPipe(n)     == "failed to get stderr pipe for " \o n \o ": too many open files"
ErrStart(n)          == "failed to start app " \o n \o ": no such file or directory"
ErrKill(n)           == "failed to kill app " \o n \o ": os: process already finished"
HttpNotFound         == "App not found"

LaunchOutcomes == {"ok", "stdout", "stderr", "start"}
ExitStatuses   == {"", "exit status 1"}     \* "" is a nil error of cmd.Wait
Killed         == "signal: killed"

(***************************************************************************)
(* A step in which StartApp, StopApp, a handler or an exit waiter returns    *)
(* records the call and its error ("" for nil) in `last`; any other step   *)
(* clears it.  Every step discards the response of the previous            *)
(* output-tail request.                                                    *)
(***************************************************************************)
NoCall == [op |-> "", name |-> "", err |-> "", cmd |-> 0]

Returns(op, n, err, c) == last' = [op |-> op, name |-> n, err |-> err, cmd |-> c]

Quiet == last' = NoCall

NoTail == tailIn' = << >> /\ tailOut' = << >> /\ tailPc' = "idle"

hcVars == <<hcPc, hcTodo, hcApp, hcResp, now>>

\* outcomes of client.Get: an error, or a response with a status code
NoResp == [err |-> "", code |-> 0]
ProbeErrors == {"connection refused"}
StatusCodes == {StatusOK, 503}
ProbeOutcomes ==
    { [err |-> e, code |-> 0] : e \in ProbeErrors } \cup
    { [err |-> "", code |-> k] : k \in StatusCodes }

(***************************************************************************)
(* The output buffer is a sequence of ranges [cmd, lo, hi]: bytes lo..hi   *)
(* of the output stream of launch cmd.  Adjacent ranges of one stream are  *)
(* kept merged, so equal contents have equal representations.              *)
(***************************************************************************)
RangeLen(r) == r.hi - r.lo + 1

RECURSIVE BufLen(_)
BufLen(b) == IF b = << >> THEN 0 ELSE RangeLen(Head(b)) + BufLen(Tail(b))

WriteString(b, r) ==
    IF b # << >> /\ b[Len(b)].cmd = r.cmd /\ b[Len(b)].hi + 1 = r.lo
    THEN [b EXCEPT ![Len(b)].hi = r.hi]
    ELSE Append(b, r)

\* Bytes()[k:] : the buffer without its first k bytes
RECURSIVE DropBytes(_, _)
DropBytes(b, k) ==
    IF k = 0 \/ b = << >> THEN b
    ELSE IF RangeLen(Head(b)) <= k
         THEN DropBytes(Tail(b), k - RangeLen(Head(b)))
         ELSE <<[Head(b) EXCEPT !.lo = @ + k]>> \o Tail(b)

\* a trim that cuts a fixed number of bytes off the front
TrimBuffer_CutsKeep(b) ==
    IF BufLen(b) > BufferCap THEN DropBytes(b, BufferKeep) ELSE b

\* lines 107-109
TrimBuffer(b) ==
    IF BufLen(b) > BufferCap THEN DropBytes(b, BufLen(b) - BufferKeep) ELSE b

\* a send to a channel that takes every chunk
TrySend_Unbounded(ch, r) == Append(ch, r)

\* lines 111-115: non-blocking send
TrySend(ch, r) == IF Len(ch) < ChanCap THEN Append(ch, r) ELSE ch

(***************************************************************************)
(* Init: the Manager that main() builds with NewManager, no request made.  *)
(***************************************************************************)
Init ==
    /\ appConfigs = Configs
    /\ apps = NewManager(appConfigs)
    /\ mu = "free"
    /\ startArg = ""
    /\ procs = << >>
    /\ hcPc = "idle"
    /\ hcTodo = {}
    /\ hcApp = ""
    /\ hcResp = NoResp
    /\ now = 0
    /\ snap = << >>
    /\ tailIn = << >>
    /\ tailOut = << >>
    /\ tailPc = "idle"
    /\ last = NoCall
    /\ scenario = [n \in DOMAIN NewManager(appConfigs) |-> "new"]

(***************************************************************************)
(* A StartApp that launches an app whether or not it is running.           *)
(***************************************************************************)
StartAppLock_NoRunningCheck(name, maxLaunch) ==
    /\ mu = "free"
    /\ NoTail
    /\ UNCHANGED <<appConfigs, apps, procs, hcVars, snap, scenario>>
    /\ IF name \notin Names
       THEN /\ Returns("StartApp", name, ErrNotFound(name), 0)
            /\ UNCHANGED <<mu, startArg>>
       ELSE /\ Len(procs) < maxLaunch
            /\ mu' = "W"
            /\ startArg' = name
            /\ Quiet

(***************************************************************************)
(* StartApp, lines 63-72: take the lock, look the app up, refuse a running *)
(* app.  On an error the deferred Unlock runs at once; otherwise the call  *)
(* goes on to the spawn with the lock held.                                *)
(***************************************************************************)
StartAppLock(name, maxLaunch) ==
    /\ mu = "free"
    /\ NoTail
    /\ UNCHANGED <<appConfigs, apps, procs, hcVars, snap, scenario>>
    /\ IF name \notin Names
       THEN /\ Returns("StartApp", name, ErrNotFound(name), 0)
            /\ UNCHANGED <<mu, startArg>>
       ELSE IF apps[name].Running
       THEN /\ Returns("StartApp", name, ErrAlreadyRunning(name), 0)
            /\ UNCHANGED <<mu, startArg>>
       ELSE /\ Len(procs) < maxLaunch
            /\ mu' = "W"
            /\ startArg' = name
            /\ Quiet

\* a launch that keeps the output of the previous launch
StartedState_NoReset(rec, c) ==
    [rec EXCEPT !.Cmd = c, !.Running = TRUE]

\* lines 93-95: the record of a launched app
StartedState(rec, c) ==
    [rec EXCEPT !.Cmd = c, !.Running = TRUE, !.OutputBuffer = << >>]

\* a launch that starts the reader and no exit waiter
NewProc_NoWaiter(name) ==
    [ app    |-> name,
      os     |-> "alive",
      status |-> "",
      waiter |-> "done",
      reader |-> "reading",
      chunk  |-> 0,
      pos    |-> 0,
      nreads |-> 0 ]

\* a fresh exec.Cmd with its two goroutines (lines 98 and 127)
NewProc(name) ==
    [ app    |-> name,
      os     |-> "alive",       \* alive, killed (signalled), zombie (exited), reaped (Wait returned)
      status |-> "",            \* the error cmd.Wait returns, "" for nil
      waiter |-> "waiting",     \* waiting (in cmd.Wait), waited, done
      reader |-> "reading",     \* reading (in reader.Read), got (holds a chunk), done
      chunk  |-> 0,             \* n of the Read that returned
      pos    |-> 0,             \* bytes of the stream read so far
      nreads |-> 0 ]

(***************************************************************************)
(* StartApp, lines 74-146: create the pipes and spawn the process under    *)
(* the lock.  A failure returns before any write to the record.            *)
(***************************************************************************)
StartAppLaunch(outcome) ==
    /\ mu = "W"
    /\ mu' = "free"
    /\ startArg' = ""
    /\ NoTail
    /\ UNCHANGED <<appConfigs, hcVars, snap>>
    /\ LET name == startArg IN
       IF outcome # "ok"
       THEN /\ Returns("StartApp", name,
                    CASE outcome = "stdout" -> ErrStdoutPipe(name)
                      [] outcome = "stderr" -> ErrStderrPipe(name)
                      [] OTHER -> ErrStart(name), 0)
            /\ UNCHANGED <<apps, procs, scenario>>
       ELSE LET c == Len(procs) + 1 IN
            /\ procs' = Append(procs, NewProc(name))
            /\ apps' = [apps EXCEPT ![name] = StartedState(@, c)]
            /\ scenario' = [scenario EXCEPT ![name] = IF @ = "new" THEN "started" ELSE "other"]
            /\ Returns("StartApp", name, "", c)

\* a stop that leaves the health status to the health-check loop
StoppedState_NoHealth(rec) ==
    [rec EXCEPT !.Running = FALSE, !.Cmd = 0]

\* lines 164-166: the record of a stopped app
StoppedState(rec) ==
    [rec EXCEPT !.Running = FALSE, !.HealthStatus = "Stopped", !.Cmd = 0]

\* Process.Kill fails once Wait has reaped the process (os: process already finished)
KillFails(c) == procs[c].os = "reaped"

\* a StopApp that marks the record stopped before it signals the process
StopApp_WritesFirst(name) ==
    /\ mu = "free"
    /\ NoTail
    /\ UNCHANGED <<appConfigs, mu, startArg, hcVars, snap>>
    /\ IF name \notin Names
       THEN /\ Returns("StopApp", name, ErrNotFound(name), 0)
            /\ UNCHANGED <<apps, procs, scenario>>
       ELSE IF ~apps[name].Running \/ apps[name].Cmd = 0
       THEN /\ Returns("StopApp", name, ErrNotRunning(name), 0)
            /\ UNCHANGED <<apps, procs, scenario>>
       ELSE LET c == apps[name].Cmd IN
            /\ apps' = [apps EXCEPT ![name] = StoppedState(@)]
            /\ scenario' = [scenario EXCEPT ![name] = IF @ = "started" THEN "stopped" ELSE "other"]
            /\ procs' = [procs EXCEPT ![c].os = IF @ = "alive" THEN "killed" ELSE @]
            /\ Returns("StopApp", name, IF KillFails(c) THEN ErrKill(name) ELSE "", c)

(***************************************************************************)
(* StopApp, lines 149-169, one critical section.  Kill only signals the    *)
(* process: it stays alive until it exits in a later step.                 *)
(***************************************************************************)
StopApp(name) ==
    /\ mu = "free"
    /\ NoTail
    /\ UNCHANGED <<appConfigs, mu, startArg, hcVars, snap>>
    /\ IF name \notin Names
       THEN /\ Returns("StopApp", name, ErrNotFound(name), 0)
            /\ UNCHANGED <<apps, procs, scenario>>
       ELSE IF ~apps[name].Running \/ apps[name].Cmd = 0
       THEN /\ Returns("StopApp", name, ErrNotRunning(name), 0)
            /\ UNCHANGED <<apps, procs, scenario>>
       ELSE LET c == apps[name].Cmd IN
            IF KillFails(c)
            THEN /\ Returns("StopApp", name, ErrKill(name), c)
                 /\ UNCHANGED <<apps, procs, scenario>>
            ELSE /\ procs' = [procs EXCEPT ![c].os = IF @ = "alive" THEN "killed" ELSE @]
                 /\ apps' = [apps EXCEPT ![name] = StoppedState(@)]
                 /\ scenario' = [scenario EXCEPT ![name] = IF @ = "started" THEN "stopped" ELSE "other"]
                 /\ Returns("StopApp", name, "", c)

(***************************************************************************)
(* The child process terminates: by itself, cleanly or with an error, or   *)
(* from the signal Kill sent.                                              *)
(***************************************************************************)
ProcExit(c, st) ==
    /\ procs[c].os \in {"alive", "killed"}
    /\ st \in (IF procs[c].os = "killed" THEN {Killed} ELSE ExitStatuses)
    /\ procs' = [procs EXCEPT ![c].os = "zombie", ![c].status = st]
    /\ Quiet
    /\ NoTail
    /\ UNCHANGED <<appConfigs, apps, mu, startArg, hcVars, snap, scenario>>

(***************************************************************************)
(* Exit waiter, line 128: cmd.Wait returns once the process has exited;    *)
(* it reaps the process and closes the pipes.                              *)
(***************************************************************************)
WaiterWait(c) ==
    /\ procs[c].waiter = "waiting"
    /\ procs[c].os = "zombie"
    /\ procs' = [procs EXCEPT ![c].os = "reaped", ![c].waiter = "waited"]
    /\ Quiet
    /\ NoTail
    /\ UNCHANGED <<appConfigs, apps, mu, startArg, hcVars, snap, scenario>>

\* a waiter that only checks that the record holds some command
IsCurrentCmd_AnyCmd(name, c) == apps[name].Cmd # 0

\* line 131: if app.Cmd == cmd
IsCurrentCmd(name, c) == apps[name].Cmd = c

\* fmt.Sprintf("Exited: %v", err)
Exited(err) == "Exited: " \o err

\* an exit that keeps the command of the dead process in the record
ExitedState_KeepsCmd(rec, err) ==
    [rec EXCEPT !.Running = FALSE,
                !.HealthStatus = IF err # "" THEN Exited(err) ELSE "Stopped"]

\* an exit that clears the command and leaves the record running
ExitedState_StaysRunning(rec, err) ==
    [rec EXCEPT !.Cmd = 0,
                !.HealthStatus = IF err # "" THEN Exited(err) ELSE "Stopped"]

\* lines 132-140
ExitedState(rec, err) ==
    [rec EXCEPT !.Running = FALSE, !.Cmd = 0,
                !.HealthStatus = IF err # "" THEN Exited(err) ELSE "Stopped"]

(***************************************************************************)
(* Exit waiter, lines 129-142: under the lock, write the exit into the     *)
(* record if the record still holds this launch's command.                 *)
(***************************************************************************)
WaiterWrite(c) ==
    /\ procs[c].waiter = "waited"
    /\ mu = "free"
    /\ procs' = [procs EXCEPT ![c].waiter = "done"]
    /\ LET name == procs[c].app IN
       IF IsCurrentCmd(name, c)
       THEN /\ apps' = [apps EXCEPT ![name] = ExitedState(@, procs[c].status)]
            /\ scenario' = [scenario EXCEPT ![name] = "other"]
       ELSE UNCHANGED <<apps, scenario>>
    /\ Returns("waiter", procs[c].app, "", c)
    /\ NoTail
    /\ UNCHANGED <<appConfigs, mu, startArg, hcVars, snap>>

\* the chunks read so far, by all readers
RECURSIVE TotalReads(_)
TotalReads(ps) == IF ps = << >> THEN 0 ELSE Head(ps).nreads + TotalReads(Tail(ps))

(***************************************************************************)
(* Output reader, line 101: reader.Read returns n > 0 bytes.  The pipe     *)
(* can be read until Wait closes it.                                       *)
(***************************************************************************)
ReaderRead(c, n, max) ==
    /\ procs[c].reader = "reading"
    /\ procs[c].os # "reaped"
    /\ TotalReads(procs) < max
    /\ n \in 1..ReadBufSize
    /\ procs' = [procs EXCEPT ![c].reader = "got", ![c].chunk = n, ![c].nreads = @ + 1]
    /\ Quiet
    /\ NoTail
    /\ UNCHANGED <<appConfigs, apps, mu, startArg, hcVars, snap, scenario>>

\* lines 105-109 and 111-115 on one record
AppendOutput(rec, r) ==
    [rec EXCEPT !.OutputBuffer = TrimBuffer(WriteString(@, r)),
                !.OutputChan = TrySend(@, r)]

(***************************************************************************)
(* Output reader, lines 103-116: append the chunk under the lock, trim the *)
(* buffer, then offer the chunk to the channel without blocking.           *)
(***************************************************************************)
ReaderWrite(c) ==
    /\ procs[c].reader = "got"
    /\ mu = "free"
    /\ LET p == procs[c]
           r == [cmd |-> c, lo |-> p.pos + 1, hi |-> p.pos + p.chunk]
       IN  /\ apps' = [apps EXCEPT ![p.app] = AppendOutput(@, r)]
           /\ procs' = [procs EXCEPT ![c].reader = "reading", ![c].chunk = 0, ![c].pos = r.hi]
    /\ Quiet
    /\ NoTail
    /\ UNCHANGED <<appConfigs, mu, startArg, hcVars, snap, scenario>>

(***************************************************************************)
(* Output reader, lines 117-122: Read returns io.EOF (the child closed its *)
(* output or died) or an error (Wait closed the pipe); the goroutine ends. *)
(***************************************************************************)
ReaderEnd(c) ==
    /\ procs[c].reader = "reading"
    /\ procs' = [procs EXCEPT ![c].reader = "done"]
    /\ Quiet
    /\ NoTail
    /\ UNCHANGED <<appConfigs, apps, mu, startArg, hcVars, snap, scenario>>

(***************************************************************************)
(* RunHealthChecks, lines 208-214: a tick; the apps are collected under    *)
(* the read lock.  Go iterates the map in no fixed order, so the apps to   *)
(* visit are a set and any of them is visited next.                        *)
(***************************************************************************)
Tick ==
    /\ hcPc = "idle"
    /\ mu # "W"
    /\ now < MaxTicks
    /\ now' = now + 1
    /\ hcTodo' = Names
    /\ hcPc' = "loop"
    /\ Quiet
    /\ NoTail
    /\ UNCHANGED <<appConfigs, apps, mu, startArg, procs, hcApp, hcResp, snap, scenario>>

(***************************************************************************)
(* RunHealthChecks, lines 216-217 (and 173): read app.Running, without the *)
(* lock, and choose the branch.                                            *)
(***************************************************************************)
Visit(name) ==
    /\ hcPc = "loop"
    /\ name \in hcTodo
    /\ hcTodo' = hcTodo \ {name}
    /\ hcApp' = name
    /\ hcPc' = IF apps[name].Running
               THEN IF apps[name].Config.HealthURL = "" THEN "na" ELSE "get"
               ELSE "stopped"
    /\ Quiet
    /\ NoTail
    /\ UNCHANGED <<appConfigs, apps, mu, startArg, procs, hcResp, now, snap, scenario>>

\* the loop goes on with the next app, or waits for the next tick
NextApp ==
    /\ hcPc' = IF hcTodo = {} THEN "idle" ELSE "loop"
    /\ hcApp' = ""
    /\ hcResp' = NoResp
    /\ UNCHANGED <<hcTodo, now>>

\* lines 175-176
NAState(rec, t) == [rec EXCEPT !.HealthStatus = "N/A", !.HealthLastCheck = t]

(***************************************************************************)
(* CheckAppHealth, lines 173-179: no health URL.                           *)
(***************************************************************************)
CheckAppHealthNA ==
    /\ hcPc = "na"
    /\ mu = "free"
    /\ apps' = [apps EXCEPT ![hcApp] = NAState(@, now)]
    /\ NextApp
    /\ Quiet
    /\ NoTail
    /\ UNCHANGED <<appConfigs, mu, startArg, procs, snap, scenario>>

(***************************************************************************)
(* CheckAppHealth, lines 181-182: the HTTP GET, outside the lock.          *)
(***************************************************************************)
Get(resp) ==
    /\ hcPc = "get"
    /\ resp \in ProbeOutcomes
    /\ hcResp' = resp
    /\ hcPc' = "result"
    /\ Quiet
    /\ NoTail
    /\ UNCHANGED <<appConfigs, apps, mu, startArg, procs, hcTodo, hcApp, now, snap, scenario>>

\* fmt.Sprintf("Error: %v", err), fmt.Sprintf("Degraded (%d)", resp.StatusCode)
ErrorStatus(err) == "Error: " \o err
Degraded(code) == "Degraded (" \o ToString(code) \o ")"

\* lines 188-199: the status of a probe outcome
HealthOf(resp) ==
    IF resp.err # "" THEN ErrorStatus(resp.err)
    ELSE IF resp.code = StatusOK THEN "Healthy"
    ELSE Degraded(resp.code)

\* a probe that returns on an error before it sets the time of the check
ProbedState_ErrorFirst(rec, resp, t) ==
    IF resp.err # "" THEN [rec EXCEPT !.HealthStatus = HealthOf(resp)]
    ELSE [rec EXCEPT !.HealthLastCheck = t, !.HealthStatus = HealthOf(resp)]

\* lines 187-199
ProbedState(rec, resp, t) ==
    [rec EXCEPT !.HealthLastCheck = t, !.HealthStatus = HealthOf(resp)]

(***************************************************************************)
(* CheckAppHealth, lines 184-201: write the probe's result under the lock. *)
(***************************************************************************)
CheckAppHealthWrite ==
    /\ hcPc = "result"
    /\ mu = "free"
    /\ apps' = [apps EXCEPT ![hcApp] = ProbedState(@, hcResp, now)]
    /\ NextApp
    /\ Quiet
    /\ NoTail
    /\ UNCHANGED <<appConfigs, mu, startArg, procs, snap, scenario>>

\* lines 221-222
ForcedStoppedState(rec, t) ==
    [rec EXCEPT !.HealthStatus = "Stopped", !.HealthLastCheck = t]

(***************************************************************************)
(* RunHealthChecks, lines 219-224: the app was read as not running.        *)
(***************************************************************************)
ForceStopped ==
    /\ hcPc = "stopped"
    /\ mu = "free"
    /\ apps' = [apps EXCEPT ![hcApp] = ForcedStoppedState(@, now)]
    /\ NextApp
    /\ Quiet
    /\ NoTail
    /\ UNCHANGED <<appConfigs, mu, startArg, procs, snap, scenario>>

\* the fields of an AppState that its JSON encoding shows
View(rec) ==
    [ config            |-> rec.Config,
      running           |-> rec.Running,
      health_status     |-> rec.HealthStatus,
      health_last_check |-> rec.HealthLastCheck ]

(***************************************************************************)
(* getAppsHandler, lines 239-245: copy every AppState under the read lock. *)
(***************************************************************************)
getAppsHandlerCopy ==
    /\ mu = "free"
    /\ mu' = "R"
    /\ snap' = [n \in Names |-> View(apps[n])]
    /\ Quiet
    /\ NoTail
    /\ UNCHANGED <<appConfigs, apps, startArg, procs, hcVars, scenario>>

(***************************************************************************)
(* getAppsHandler, lines 247-251: encode the copies to the response, then  *)
(* the deferred RUnlock.                                                   *)
(***************************************************************************)
getAppsHandlerEncode ==
    /\ mu = "R"
    /\ mu' = "free"
    /\ snap' = << >>
    /\ Returns("getApps", "", "", 0)
    /\ NoTail
    /\ UNCHANGED <<appConfigs, apps, startArg, procs, hcVars, scenario>>

(***************************************************************************)
(* The bytes a child writes: byte p of the output of launch c.             *)
(***************************************************************************)
ByteAt(c, p) == IF p % LineLen = 0 THEN NL ELSE 64 + c

\* app.OutputBuffer.String()
RECURSIVE BufferString(_)
BufferString(b) ==
    IF b = << >> THEN << >>
    ELSE [p \in 1..RangeLen(Head(b)) |-> ByteAt(Head(b).cmd, Head(b).lo + p - 1)]
         \o BufferString(Tail(b))

\* bytes.Split(s, "\n"): the pieces between the newlines, one more than newlines
Split(s) ==
    LET nl == { i \in 1..Len(s) : s[i] = NL }
        cnt == Cardinality(nl)
        pos(k) == IF k = 0 THEN 0
                  ELSE IF k = cnt + 1 THEN Len(s) + 1
                  ELSE CHOOSE p \in nl : Cardinality({ q \in nl : q <= p }) = k
    IN  [k \in 1..(cnt + 1) |-> SubSeq(s, pos(k - 1) + 1, pos(k) - 1)]

\* bytes.Join(lines, "\n")
RECURSIVE Join(_)
Join(lines) ==
    IF lines = << >> THEN << >>
    ELSE IF Len(lines) = 1 THEN lines[1]
    ELSE lines[1] \o <<NL>> \o Join(Tail(lines))

\* lines 303-311
TailOutput(output) ==
    LET lines == Split(output)
        numLines == Len(lines)
        start == IF numLines > TailLines THEN numLines - TailLines ELSE 0
    IN  Join(SubSeq(lines, start + 1, numLines))

\* line 312: w.Write(filteredOutput)
Respond(output) ==
    /\ tailIn' = output
    /\ tailOut' = TailOutput(output)
    /\ tailPc' = "done"

(***************************************************************************)
(* getAppOutputHandler, lines 286-313.                                     *)
(***************************************************************************)
getAppOutputHandler(name) ==
    /\ mu # "W"
    /\ IF name \notin Names
       THEN /\ Returns("Tail", name, HttpNotFound, 0)
            /\ NoTail
       ELSE /\ Returns("Tail", name, "", 0)
            /\ Respond(BufferString(apps[name].OutputBuffer))
    /\ UNCHANGED <<appConfigs, apps, mu, startArg, procs, hcVars, snap, scenario>>

(***************************************************************************)
(* The lifecycle specification: every call of StartApp, StopApp and the    *)
(* two handlers, on both apps and on an unknown name, with the child       *)
(* processes and their exit waiters.  The readers are left to the output   *)
(* specification and the health-check loop to the health-check             *)
(* specification: neither writes Running or Cmd, and no step here depends  *)
(* on what they write.  Without readers the output buffers stay empty.     *)
(***************************************************************************)
Next ==
    \/ \E name \in Names \cup {Unknown} : StartAppLock(name, MaxLaunch)
    \/ \E o \in LaunchOutcomes : StartAppLaunch(o)
    \/ \E name \in Names \cup {Unknown} : StopApp(name)
    \/ \E c \in DOMAIN procs, st \in ExitStatuses \cup {Killed} : ProcExit(c, st)
    \/ \E c \in DOMAIN procs : WaiterWait(c)
    \/ \E c \in DOMAIN procs : WaiterWrite(c)
    \/ getAppsHandlerCopy
    \/ getAppsHandlerEncode
    \/ \E name \in Names \cup {Unknown} : getAppOutputHandler(name)

Spec == Init /\ [][Next]_vars

(***************************************************************************)
(* The health-check specification: the RunHealthChecks goroutine next to   *)
(* StartApp, StopApp, the child processes, their exit waiters and          *)
(* getAppsHandler, on both apps.                                           *)
(***************************************************************************)
NextHealth ==
    \/ \E name \in Names : StartAppLock(name, MaxHealthLaunch)
    \/ \E o \in LaunchOutcomes : StartAppLaunch(o)
    \/ \E name \in Names : StopApp(name)
    \/ \E c \in DOMAIN procs, st \in ExitStatuses \cup {Killed} : ProcExit(c, st)
    \/ \E c \in DOMAIN procs : WaiterWait(c)
    \/ \E c \in DOMAIN procs : WaiterWrite(c)
    \/ Tick
    \/ \E name \in Names : Visit(name)
    \/ CheckAppHealthNA
    \/ \E resp \in ProbeOutcomes : Get(resp)
    \/ CheckAppHealthWrite
    \/ ForceStopped
    \/ getAppsHandlerCopy
    \/ getAppsHandlerEncode

SpecHealth == Init /\ [][NextHealth]_vars

(***************************************************************************)
(* The output specification: the launches of the app "Echo" and their      *)
(* readers, with chunks of one byte and of a full read buffer.  An app is  *)
(* made startable again by StopApp; an exit seen by the waiter does the    *)
(* same to the buffer (nothing) and only stops the reads of that launch    *)
(* earlier, so the buffer contents reached are the same.  A reader that    *)
(* has ended is one that reads no more.                                    *)
(***************************************************************************)
BufChunks == {1, ReadBufSize}

NextOutput ==
    \/ StartAppLock("Echo", MaxBufLaunch)
    \/ StartAppLaunch("ok")
    \/ StopApp("Echo")
    \/ \E c \in DOMAIN procs, n \in BufChunks : ReaderRead(c, n, MaxReads)
    \/ \E c \in DOMAIN procs : ReaderWrite(c)

SpecOutput == Init /\ [][NextOutput]_vars

(***************************************************************************)
(* The tail specification: the computation of getAppOutputHandler, lines   *)
(* 303-312, applied to texts of up to MaxLines lines.  Line i consists of  *)
(* w bytes of value 32 + i; the lines are separated by newlines, and the   *)
(* last line either ends with a newline too or does not.                   *)
(***************************************************************************)
RECURSIVE TextOf(_, _, _, _)
TextOf(first, n, w, terminated) ==
    IF first > n THEN << >>
    ELSE [k \in 1..w |-> 32 + first]
         \o (IF first < n \/ terminated THEN <<NL>> ELSE << >>)
         \o TextOf(first + 1, n, w, terminated)

TailInputs ==
    { TextOf(1, n, w, t) : n \in 0..MaxLines, w \in 0..2, t \in BOOLEAN }

InitTail ==
    /\ appConfigs = Configs
    /\ apps = NewManager(appConfigs)
    /\ mu = "free"
    /\ startArg = ""
    /\ procs = << >>
    /\ hcPc = "idle"
    /\ hcTodo = {}
    /\ hcApp = ""
    /\ hcResp = NoResp
    /\ now = 0
    /\ snap = << >>
    /\ tailIn \in TailInputs
    /\ tailOut = << >>
    /\ tailPc = "idle"
    /\ last = NoCall
    /\ scenario = [n \in DOMAIN NewManager(appConfigs) |-> "new"]

TailApply ==
    /\ tailPc = "idle"
    /\ Respond(tailIn)
    /\ UNCHANGED <<appConfigs, apps, mu, startArg, procs, hcVars, snap, last, scenario>>

SpecTail == InitTail /\ [][TailApply]_vars

(***************************************************************************)
(* The construction specification: NewManager applied to every list of up  *)
(* to MaxConfigs configurations, two names with and without health URL,    *)
(* followed by StartApp and StopApp calls on the apps of the Manager.      *)
(***************************************************************************)
ConfigChoices ==
    { [Name |-> n, HealthURL |-> u] :
        n \in {"Echo", "Web"}, u \in {"", "http://127.0.0.1:6972/health"} }

ConfigLists == UNION { [1..k -> ConfigChoices] : k \in 0..MaxConfigs }

InitConfig ==
    /\ appConfigs \in ConfigLists
    /\ apps = NewManager(appConfigs)
    /\ mu = "free"
    /\ startArg = ""
    /\ procs = << >>
    /\ hcPc = "idle"
    /\ hcTodo = {}
    /\ hcApp = ""
    /\ hcResp = NoResp
    /\ now = 0
    /\ snap = << >>
    /\ tailIn = << >>
    /\ tailOut = << >>
    /\ tailPc = "idle"
    /\ last = NoCall
    /\ scenario = [n \in DOMAIN NewManager(appConfigs) |-> "new"]

NextConfig ==
    \/ \E name \in Names : StartAppLock(name, MaxConfigLaunch)
    \/ \E o \in LaunchOutcomes : StartAppLaunch(o)
    \/ \E name \in Names : StopApp(name)

SpecConfig == InitConfig /\ [][NextConfig]_vars

(***************************************************************************)
(* The exit specification: the launches, stops and exits of the app "Web"  *)
(* with their exit waiters, next to getAppsHandler and to StartApp calls   *)
(* on the other app whose launch fails, which take the lock in between.    *)
(*                                                                         *)
(* It is run under fair scheduling.  The Go scheduler runs every runnable  *)
(* goroutine: cmd.Wait returns once the process has exited, a spawn and a  *)
(* response write come to an end and release the lock, and a goroutine     *)
(* blocked in mu.Lock gets the lock (sync.RWMutex keeps new readers out    *)
(* while a writer waits and hands a starving waiter the lock), however     *)
(* often other tasks take it.  Whether a process exits and whether a       *)
(* request is made is left open.                                           *)
(***************************************************************************)
NextLive ==
    \/ \E name \in Names : StartAppLock(name, MaxLiveLaunch)
    \/ \E o \in (IF startArg = "Web" THEN LaunchOutcomes ELSE {"start"}) :
            StartAppLaunch(o)
    \/ StopApp("Web")
    \/ \E c \in DOMAIN procs, st \in ExitStatuses \cup {Killed} : ProcExit(c, st)
    \/ \E c \in DOMAIN procs : WaiterWait(c)
    \/ \E c \in DOMAIN procs : WaiterWrite(c)
    \/ getAppsHandlerCopy
    \/ getAppsHandlerEncode

LifecycleFairness ==
    /\ WF_vars(\E o \in LaunchOutcomes : StartAppLaunch(o))
    /\ WF_vars(getAppsHandlerEncode)
    /\ \A c \in 1..MaxLiveLaunch :
        /\ WF_vars(c \in DOMAIN procs /\ WaiterWait(c))
        /\ SF_vars(c \in DOMAIN procs /\ WaiterWrite(c))

SpecLive == Init /\ [][NextLive]_vars /\ LifecycleFairness

(***************************************************************************)
(* The task specification: the launches of the app "Echo" with both        *)
(* goroutines of every launch: the exit waiter, and the output reader up   *)
(* to the Read that fails.  What a reader writes before that is left to    *)
(* the output specification.                                               *)
(***************************************************************************)
NextTasks ==
    \/ StartAppLock("Echo", MaxTaskLaunch)
    \/ StartAppLaunch("ok")
    \/ StopApp("Echo")
    \/ \E c \in DOMAIN procs, st \in ExitStatuses \cup {Killed} : ProcExit(c, st)
    \/ \E c \in DOMAIN procs : WaiterWait(c)
    \/ \E c \in DOMAIN procs : WaiterWrite(c)
    \/ \E c \in DOMAIN procs : ReaderEnd(c)

SpecTasks == Init /\ [][NextTasks]_vars

(***************************************************************************)
(* The channel specification: one launch of the app "Echo" whose reader    *)
(* reads full buffers, MaxDrops more of them than the output channel       *)
(* holds.  Nothing in the program receives from the channel.               *)
(***************************************************************************)
NextChan ==
    \/ StartAppLock("Echo", MaxChanLaunch)
    \/ StartAppLaunch("ok")
    \/ \E c \in DOMAIN procs : ReaderRead(c, ReadBufSize, ChanCap + MaxDrops)
    \/ \E c \in DOMAIN procs : ReaderWrite(c)

SpecChan == Init /\ [][NextChan]_vars

(***************************************************************************)
(* Properties of the lifecycle.                                            *)
(***************************************************************************)

\* the exit waiter of launch c runs its critical section in this step
WaiterFires(c) == procs[c].waiter = "waited" /\ procs'[c].waiter = "done"

\* C1: an exit waiter that fires when the record holds the command of a newer
\* launch writes nothing: the app stays running, the handle stays the one the
\* newer StartApp installed and the health status is not changed.
C1_StaleWaiterWritesNothing ==
    [][\A c \in DOMAIN procs :
        LET n == procs[c].app IN
        (WaiterFires(c) /\ apps[n].Cmd > c)
            => /\ apps'[n].Running
               /\ apps'[n].Cmd = apps[n].Cmd
               /\ apps'[n].HealthStatus = apps[n].HealthStatus
               /\ apps' = apps]_vars

\* a waiter has just fired while the record holds a newer launch's command
C1_Witness ==
    /\ last.op = "waiter"
    /\ apps[last.name].Cmd > last.cmd
    /\ apps[last.name].Running

\* C2: a StartApp on a known app that is not running, whose launch succeeds,
\* returns nil and in one step under the lock sets Running, installs the new
\* command and empties the output buffer; it starts one reader and one exit
\* waiter, those of the new command.
C2_StartInstallsLaunch ==
    [][(mu = "W" /\ last'.op = "StartApp" /\ last'.err = "")
        => LET n == startArg
               c == last'.cmd
           IN  /\ n \in Names
               /\ ~apps[n].Running
               /\ mu' = "free"
               /\ apps'[n].Running
               /\ apps'[n].Cmd = c
               /\ c \notin DOMAIN procs
               /\ apps'[n].OutputBuffer = << >>
               /\ \A m \in Names \ {n} : apps'[m] = apps[m]
               /\ DOMAIN procs' = DOMAIN procs \cup {c}
               /\ \A d \in DOMAIN procs : procs'[d] = procs[d]
               /\ procs'[c].app = n
               /\ procs'[c].reader = "reading"
               /\ procs'[c].waiter = "waiting"]_vars

\* StartApp has just returned nil for a second launch, after the first launch
\* had written output to the buffer
C2_Witness ==
    /\ last.op = "StartApp"
    /\ last.err = ""
    /\ last.cmd > 1
    /\ procs[1].app = last.name
    /\ procs[1].pos > 0
    /\ apps[last.name].OutputBuffer = << >>

\* C3: a StopApp on a running app whose signal is delivered leaves, when it
\* returns, Running false, the health status "Stopped" and no command, whether
\* or not the process has exited or its exit waiter has run; a snapshot taken
\* right after it shows running false and "Stopped".
C3_StopIsSynchronous ==
    [][/\ (last'.op = "StopApp" /\ last'.err = "")
            => LET n == last'.name IN
               /\ apps[n].Running
               /\ apps[n].Cmd = last'.cmd
               /\ ~apps'[n].Running
               /\ apps'[n].HealthStatus = "Stopped"
               /\ apps'[n].Cmd = 0
               /\ procs'[last'.cmd].waiter = procs[last'.cmd].waiter
               /\ procs'[last'.cmd].waiter # "done"
       /\ (last.op = "StopApp" /\ last.err = "" /\ mu = "free" /\ mu' = "R")
            => /\ ~snap'[last.name].running
               /\ snap'[last.name].health_status = "Stopped"]_vars

\* StopApp has just returned nil while the process is still alive and its exit
\* waiter still waits
C3_Witness ==
    /\ last.op = "StopApp"
    /\ last.err = ""
    /\ procs[last.cmd].os = "killed"
    /\ procs[last.cmd].waiter = "waiting"

\* C4: a StartApp, StopApp or output-tail call that returns an error changes no
\* record: an unknown name gives the not-found error, StartApp on a running
\* app the already-running error, StopApp on an app that is not running the
\* not-running error, a failed launch leaves the app not running without a
\* command, and a failed signal leaves Running, the command and the health
\* status as they were.
C4_ErrorsChangeNothing ==
    [][(last'.op \in {"StartApp", "StopApp", "Tail"} /\ last'.err # "")
        => LET n == last'.name
               e == last'.err
           IN  /\ apps' = apps
               /\ procs' = procs
               /\ (n \notin Names /\ last'.op = "Tail") => e = HttpNotFound
               /\ (n \notin Names /\ last'.op # "Tail") => e = ErrNotFound(n)
               /\ (n \in Names) => last'.op # "Tail"
               /\ (n \in Names /\ last'.op = "StartApp" /\ mu = "free")
                    => (apps[n].Running /\ e = ErrAlreadyRunning(n))
               /\ (n \in Names /\ last'.op = "StartApp" /\ mu = "W")
                    => /\ e \in {ErrStdoutPipe(n), ErrStderrPipe(n), ErrStart(n)}
                       /\ ~apps'[n].Running
                       /\ apps'[n].Cmd = 0
                       /\ mu' = "free"
               /\ (n \in Names /\ last'.op = "StopApp" /\ ~apps[n].Running)
                    => e = ErrNotRunning(n)
               /\ (n \in Names /\ last'.op = "StopApp" /\ apps[n].Running)
                    => /\ e = ErrKill(n)
                       /\ apps'[n].Running
                       /\ apps'[n].Cmd = last'.cmd]_vars

\* StopApp has just failed to signal a running app whose process was reaped
C4_Witness ==
    /\ last.op = "StopApp"
    /\ last.name \in Names
    /\ last.err = ErrKill(last.name)
    /\ apps[last.name].Running

\* C5: whenever no writer holds the lock, every record is running exactly if
\* it holds a command.
C5_RunningIffHandle ==
    mu # "W" => \A n \in Names : apps[n].Running <=> apps[n].Cmd # 0

\* an exit waiter has just written the error exit of its process
C5_Witness ==
    /\ last.op = "waiter"
    /\ ~apps[last.name].Running
    /\ apps[last.name].Cmd = 0
    /\ apps[last.name].HealthStatus = Exited("exit status 1")

(***************************************************************************)
(* Properties of the health checks.                                        *)
(***************************************************************************)

\* C6: a record that is not running never has the health status "Healthy" or
\* "Degraded (<code>)".
C6_NoProbeResultWhenStopped ==
    \A n \in Names :
        ~apps[n].Running =>
            apps[n].HealthStatus \notin
                {"Healthy"} \cup { Degraded(k) : k \in StatusCodes }

\* C8: the scenario of an app without health URL.  After construction its
\* status is "Unknown"; once started it is running, with status "Unknown"
\* before the first tick and "Unknown" or "N/A" after it; once stopped it is
\* not running and its status is "Stopped" until it is started again.
C8_NoUrlScenario ==
    \A n \in Names :
        apps[n].Config.HealthURL = "" =>
            /\ (scenario[n] = "new" /\ now = 0)
                    => apps[n].HealthStatus = "Unknown"
            /\ scenario[n] = "started"
                    => /\ apps[n].Running
                       /\ apps[n].HealthStatus \in {"Unknown", "N/A"}
                       /\ now = 0 => apps[n].HealthStatus = "Unknown"
            /\ scenario[n] = "stopped"
                    => /\ ~apps[n].Running
                       /\ apps[n].HealthStatus = "Stopped"

\* CheckAppHealth writes its result in this step
ProbeWrites == hcPc \in {"na", "result"} /\ hcPc' \in {"loop", "idle"}

\* C9: a probe of an app without URL makes no request and yields "N/A"; a
\* response with status 200 yields "Healthy", with another status c
\* "Degraded (c)", an error yields "Error: <error>"; each of them sets
\* HealthLastCheck to the time of the check, changes no other record, and
\* leaves the loop with the apps it had left to visit.
C9_ProbeClassifies ==
    [][/\ (hcPc = "loop" /\ hcPc' = "get") => apps[hcApp'].Config.HealthURL # ""
       /\ ProbeWrites
            => /\ hcPc = "na" =>
                    /\ apps[hcApp].Config.HealthURL = ""
                    /\ apps'[hcApp].HealthStatus = "N/A"
               /\ (hcPc = "result" /\ hcResp.err = "" /\ hcResp.code = 200)
                    => apps'[hcApp].HealthStatus = "Healthy"
               /\ (hcPc = "result" /\ hcResp.err = "" /\ hcResp.code # 200)
                    => apps'[hcApp].HealthStatus =
                            "Degraded (" \o ToString(hcResp.code) \o ")"
               /\ (hcPc = "result" /\ hcResp.err # "")
                    => apps'[hcApp].HealthStatus = "Error: " \o hcResp.err
               /\ now > 0
               /\ apps'[hcApp].HealthLastCheck = now
               /\ \A m \in Names \ {hcApp} : apps'[m] = apps[m]
               /\ hcTodo' = hcTodo
               /\ hcPc' = IF hcTodo = {} THEN "idle" ELSE "loop"]_vars

\* a failed probe was recorded and the loop has gone on to the next app
C9_Witness ==
    /\ \E n \in Names :
        /\ apps[n].HealthStatus = "Error: connection refused"
        /\ apps[n].HealthLastCheck = now
    /\ hcPc \in {"na", "get", "result", "stopped"}

(***************************************************************************)
(* Properties of the captured output.                                      *)
(***************************************************************************)

\* the last k bytes of a sequence of ranges, taken from its end
RECURSIVE TakeLast(_, _)
TakeLast(b, k) ==
    IF k = 0 \/ b = << >> THEN << >>
    ELSE LET r == b[Len(b)] IN
         IF RangeLen(r) >= k THEN <<[r EXCEPT !.lo = r.hi - k + 1]>>
         ELSE Append(TakeLast(SubSeq(b, 1, Len(b) - 1), k - RangeLen(r)), r)

\* a sequence of ranges with its adjacent ranges of one stream joined
RECURSIVE Joined(_)
Joined(b) ==
    IF Len(b) < 2 THEN b
    ELSE LET front == Joined(SubSeq(b, 1, Len(b) - 1))
             f == front[Len(front)]
             r == b[Len(b)]
         IN  IF f.cmd = r.cmd /\ f.hi + 1 = r.lo
             THEN Append(SubSeq(front, 1, Len(front) - 1), [f EXCEPT !.hi = r.hi])
             ELSE Append(front, r)

\* the reader of launch c appends its chunk in this step
ReaderAppends(c) == procs[c].reader = "got" /\ procs'[c].reader = "reading"

\* C7: after every write the output buffer holds at most 4096 bytes, and a
\* write that takes it over 4096 leaves exactly the last 2048 bytes of the
\* old content followed by the chunk.
C7_BufferBounded ==
    /\ [](\A n \in Names : BufLen(apps[n].OutputBuffer) <= 4096)
    /\ [][\A c \in DOMAIN procs :
            ReaderAppends(c) =>
                LET n == procs[c].app
                    k == procs[c].chunk
                    \* the old content followed by the chunk
                    all == Append(apps[n].OutputBuffer,
                                  [cmd |-> c, lo |-> procs[c].pos + 1, hi |-> procs[c].pos + k])
                    new == apps'[n].OutputBuffer
                IN  /\ k \in 1..1024
                    /\ BufLen(all) <= 4096 => new = Joined(all)
                    /\ BufLen(all) > 4096 =>
                        /\ BufLen(new) = 2048
                        /\ new = Joined(TakeLast(all, 2048))]_vars

\* one launch has written more than the cap and the buffer was cut to 2048 bytes
C7_Witness ==
    \E c \in DOMAIN procs :
        /\ procs[c].pos > BufferCap
        /\ procs[c].reader = "reading"
        /\ BufLen(apps[procs[c].app].OutputBuffer) = BufferKeep
        /\ Len(procs) = 1

\* the lines of a text: its pieces between newlines, the last one only if the
\* text does not end with a newline
LinesOf(s) ==
    LET p == Split(s)
    IN  IF p[Len(p)] = << >> THEN SubSeq(p, 1, Len(p) - 1) ELSE p

\* C10: the output tail of a text of n lines consists of its last min(50, n)
\* lines, in their order.
C10_TailIsLastLines ==
    tailPc = "done" =>
        LET lines == LinesOf(tailIn)
            n == Len(lines)
        IN  LinesOf(tailOut) = SubSeq(lines, n - Min(50, n) + 1, n)

(***************************************************************************)
(* Properties of the construction.                                         *)
(***************************************************************************)

\* C11: a configuration list in which two entries have the same name yields no
\* supervisor: no record of the Manager has a name that occurs twice in the
\* list, so none of the two configurations has silently replaced the other.
C11_DuplicateNamesRejected ==
    \A i, j \in DOMAIN appConfigs :
        (i < j /\ appConfigs[i].Name = appConfigs[j].Name)
            => appConfigs[i].Name \notin Names

(***************************************************************************)
(* Properties of the locking.                                              *)
(***************************************************************************)

\* cmd.Start creates a child process in this step
Spawns == Len(procs') > Len(procs)

\* getAppsHandler writes its response in this step
WritesResponse == last'.op = "getApps"

\* C12: no task performs a blocking I/O step while it holds the lock: the step
\* that spawns a process is not taken by a StartApp that holds the write lock,
\* and the step that writes a response is not taken by a handler that holds
\* the read lock.  (The HTTP probe and the pipe read are steps of goroutines
\* that hold the lock in no state: their critical sections are single steps.)
C12_NoBlockingCallUnderLock ==
    [][/\ Spawns => mu # "W"
       /\ WritesResponse => mu # "R"]_vars

\* RunHealthChecks reads app.Running in this step
ReadsRunning == hcPc = "loop" /\ hcPc' \in {"na", "get", "stopped"}

\* C13: every read of a record field is made by a task that holds the read or
\* the write lock: the health-check loop reads the Running flag of a record
\* only while no other task holds the write lock.
C13_FieldReadsUnderLock ==
    [][ReadsRunning => mu # "W"]_vars

(***************************************************************************)
(* Properties of the exit waiter under fair scheduling.                    *)
(***************************************************************************)

\* the process of launch c has terminated and the record holds its command
ExitedAsCurrent(c) ==
    /\ c \in DOMAIN procs
    /\ procs[c].os \in {"zombie", "reaped"}
    /\ apps[procs[c].app].Cmd = c

\* the exit waiter of launch c has just recorded the exit of its process
ExitRecorded(c) ==
    /\ c \in DOMAIN procs
    /\ last.op = "waiter"
    /\ last.cmd = c
    /\ ~apps[procs[c].app].Running
    /\ apps[procs[c].app].Cmd = 0
    /\ apps[procs[c].app].HealthStatus =
            (IF procs[c].status = "" THEN "Stopped"
             ELSE "Exited: " \o procs[c].status)

\* C14: once the process of a launch has terminated while the record holds
\* that launch's command, the exit waiter eventually records the exit, unless
\* the record stops holding that command first: the record is then not
\* running, without command, and its health status is "Stopped" after a clean
\* exit and "Exited: <cause>" after an error exit.  The three fields are
\* written in one step that needs the lock, and the app does not stay running
\* for ever.
C14_ExitIsRecorded ==
    /\ \A c \in 1..MaxLiveLaunch :
        /\ ExitedAsCurrent(c)
                ~> (ExitRecorded(c) \/ (c \in DOMAIN procs /\ apps[procs[c].app].Cmd # c))
        /\ ExitedAsCurrent(c)
                ~> (c \in DOMAIN procs /\ ~apps[procs[c].app].Running)
    /\ [][\A c \in DOMAIN procs :
            (WaiterFires(c) /\ apps[procs[c].app].Cmd = c)
                => (mu = "free" /\ ExitRecorded(c)')]_vars

\* the exit waiter has just recorded the clean exit of the second launch
C14_Witness ==
    /\ last.op = "waiter"
    /\ last.cmd = 2
    /\ procs[2].status = ""
    /\ ExitRecorded(2)
    /\ procs[2].waiter = "done"

(***************************************************************************)
(* Properties of the health-check loop.                                    *)
(***************************************************************************)

\* the loop forces the status "Stopped" in this step
ForcesStopped == hcPc = "stopped" /\ hcPc' \in {"loop", "idle"}

\* CheckAppHealth issues its GET in this step
IssuesProbe == hcPc = "get" /\ hcPc' = "result"

\* C15: on a tick the loop treats every app by its Running flag: it forces
\* "Stopped", with the time of the check, only on a record that is not running
\* and issues no probe for it; it issues a probe only for a record that is
\* running, and a result written to a running record is the probe's result.
C15_LoopFollowsRunning ==
    [][/\ ForcesStopped
            => /\ ~apps[hcApp].Running
               /\ apps'[hcApp].HealthStatus = "Stopped"
               /\ apps'[hcApp].HealthLastCheck = now
       /\ IssuesProbe => apps[hcApp].Running
       /\ (ProbeWrites /\ hcPc = "result" /\ apps[hcApp].Running)
            => apps'[hcApp].HealthStatus = HealthOf(hcResp)]_vars

(***************************************************************************)
(* Properties of the goroutines of a launch.                               *)
(***************************************************************************)

\* C16 as claimed: whenever a record is running, the reader and the exit
\* waiter of the launch that installed its command have both not terminated.
C16_RunningHasBothTasks ==
    \A n \in Names :
        apps[n].Running =>
            /\ apps[n].Cmd \in DOMAIN procs
            /\ procs[apps[n].Cmd].waiter # "done"
            /\ procs[apps[n].Cmd].reader # "done"

\* C16, amended: whenever a record is running, the exit waiter of the launch
\* that installed its command has not terminated; the reader of that launch
\* may have (its Read has failed).
C16_RunningHasWaiter ==
    \A n \in Names :
        apps[n].Running =>
            /\ apps[n].Cmd \in DOMAIN procs
            /\ procs[apps[n].Cmd].app = n
            /\ procs[apps[n].Cmd].waiter # "done"

\* a second launch is running, its reader has ended and its process has been
\* reaped; its exit waiter is about to write
C16_Witness ==
    /\ "Echo" \in Names
    /\ apps["Echo"].Running
    /\ apps["Echo"].Cmd = 2
    /\ procs[2].reader = "done"
    /\ procs[2].waiter = "waited"
    /\ procs[1].waiter = "done"

(***************************************************************************)
(* Properties of the output channel.                                       *)
(***************************************************************************)

\* C17: the output channel never holds more than 100 chunks.  A reader that
\* has read a chunk appends it to the output buffer and offers it to the
\* channel in a step that the channel cannot block: a channel with fewer than
\* 100 chunks takes the chunk, a channel with 100 chunks is left as it is, and
\* in both cases the reader goes on to its next Read.
C17_SendNeverBlocks ==
    /\ [](\A n \in Names : Len(apps[n].OutputChan) <= 100)
    /\ [][\A c \in DOMAIN procs :
            ReaderAppends(c) =>
                LET n == procs[c].app
                    r == [cmd |-> c, lo |-> procs[c].pos + 1,
                          hi |-> procs[c].pos + procs[c].chunk]
                    ch == apps[n].OutputChan
                    buf == apps'[n].OutputBuffer
                IN  /\ Len(ch) < 100 => apps'[n].OutputChan = Append(ch, r)
                    /\ Len(ch) = 100 => apps'[n].OutputChan = ch
                    /\ buf # << >>
                    /\ buf[Len(buf)].cmd = c
                    /\ buf[Len(buf)].hi = r.hi
                    /\ procs'[c].reader = "reading"
                    /\ procs'[c].pos = r.hi]_vars

\* the channel is full, the reader has dropped a chunk that is in the buffer
\* and has gone on to read
C17_Witness ==
    /\ "Echo" \in Names
    /\ Len(apps["Echo"].OutputChan) = ChanCap
    /\ Len(procs) = 1
    /\ procs[1].nreads > ChanCap
    /\ procs[1].reader = "reading"
    /\ apps["Echo"].OutputBuffer # << >>
    /\ apps["Echo"].OutputBuffer[Len(apps["Echo"].OutputBuffer)].hi
            = procs[1].nreads * ReadBufSize
    /\ apps["Echo"].OutputChan[ChanCap].hi = ChanCap * ReadBufSize

(***************************************************************************)
(* Properties across launches of one app.                                  *)
(***************************************************************************)

\* the launches of app n
LaunchesOf(n) == { c \in DOMAIN procs : procs[c].app = n }

\* C18: the output buffer of a record holds bytes of the latest launch of its
\* app only: once a StartApp has emptied the buffer, no reader of an earlier
\* launch appends to it.
C18_BufferOfLatestLaunch ==
    \A n \in Names :
        \A i \in DOMAIN apps[n].OutputBuffer :
            \A c \in LaunchesOf(n) : c <= apps[n].OutputBuffer[i].cmd

\* the processes of app n that have not terminated
AliveOf(n) == { c \in LaunchesOf(n) : procs[c].os \in {"alive", "killed"} }

\* C19 as claimed: at most one child process of an app is alive at any time.
C19_OneLiveChild ==
    \A n \in Names : Cardinality(AliveOf(n)) <= 1

\* C19, amended: at most one child process of an app is alive without having
\* been signalled by StopApp, and it is the command of the running record; a
\* process that StopApp has signalled may still be alive when the next
\* StartApp creates a new one.
C19_OneUnsignalledChild ==
    \A n \in Names :
        /\ Cardinality({ c \in LaunchesOf(n) : procs[c].os = "alive" }) <= 1
        /\ \A c \in LaunchesOf(n) :
                procs[c].os = "alive" => (apps[n].Running /\ apps[n].Cmd = c)

\* a new process of an app runs while the signalled process of its previous
\* launch has not yet terminated
C19_Witness ==
    \E c \in DOMAIN procs, d \in DOMAIN procs :
        /\ c < d
        /\ procs[c].app = procs[d].app
        /\ procs[c].os = "killed"
        /\ procs[d].os = "alive"
        /\ apps[procs[d].app].Cmd = d

\* the health statuses that StopApp, an exit waiter and the health-check loop
\* give to a record that is not running
StoppedStatuses ==
    {"Stopped"} \cup { Exited(e) : e \in (ExitStatuses \cup {Killed}) \ {""} }

\* C20: a record whose health status is "Stopped" or "Exited: <cause>" is not
\* running.
C20_StoppedStatusNotRunning ==
    \A n \in Names :
        apps[n].HealthStatus \in StoppedStatuses => ~apps[n].Running

====
